---- MODULE Spec2Model ----
(***************************************************************************)
(* pharmaninja-backend: the ingestion script (src/ingest.js) and the       *)
(* /query handler of the server (src/server.js, src/unnamed/part_000),     *)
(* sharing one vector index.                                               *)
(*                                                                         *)
(* JavaScript strings that carry text (document text, chunks, questions,   *)
(* context) are kept run-length encoded: the sequence                      *)
(*   << [c |-> "a", n |-> 3], [c |-> " ", n |-> 2] >>  is the string "aaa  ".*)
(* The encoding is exact (every operator below computes on the string it   *)
(* stands for) and canonical (Norm), so equality of encodings is equality  *)
(* of strings. Code units are drawn from a small alphabet: "a" a Latin     *)
(* letter, " " and "\n" white space, Arabic a unit in U+0600..U+06FF,      *)
(* Surrogate a unit in U+D800..U+DFFF, and the punctuation of the context  *)
(* tags. File names are plain tuples of one-character strings.             *)
(***************************************************************************)
EXTENDS Integers, Sequences, FiniteSets, TLC

\* ------------------------------------------------------------------ bounds

\* ingestion runs of one behaviour
MaxRuns == 2
\* matches one index query returns in the model (the code asks for topK)
MaxMatches == 2
\* code units of the texts chunkText is called on by itself
MaxTextLen == 4
\* window sizes (and overlaps) of those calls
MaxSize == 3

\* ---------------------------------------------------------------- strings

Arabic == "ar"
Surrogate == "sg"

IsSpace(c) == c \in {" ", "\n"}

Run(c, n) == [c |-> c, n |-> n]

RECURSIVE Norm(_)
Norm(s) ==
  IF s = <<>> THEN <<>>
  ELSE LET h == Head(s)
           r == Norm(Tail(s))
       IN IF h.n = 0 THEN r
          ELSE IF r # <<>> /\ Head(r).c = h.c
               THEN <<Run(h.c, h.n + Head(r).n)>> \o Tail(r)
               ELSE <<h>> \o r

\* the string whose code units are the elements of chars
Str(chars) == Norm([k \in 1..Len(chars) |-> Run(chars[k], 1)])

RECURSIVE StrLen(_)
StrLen(s) == IF s = <<>> THEN 0 ELSE Head(s).n + StrLen(Tail(s))

Concat(s, t) == Norm(s \o t)

RECURSIVE Drop(_, _)
Drop(s, k) ==
  IF k <= 0 \/ s = <<>> THEN s
  ELSE IF Head(s).n <= k THEN Drop(Tail(s), k - Head(s).n)
       ELSE <<Run(Head(s).c, Head(s).n - k)>> \o Tail(s)

RECURSIVE Take(_, _)
Take(s, k) ==
  IF k <= 0 \/ s = <<>> THEN <<>>
  ELSE IF Head(s).n <= k THEN <<Head(s)>> \o Take(Tail(s), k - Head(s).n)
       ELSE <<Run(Head(s).c, k)>>

\* String.prototype.slice(a, b) for 0 <= a <= b
StrSlice(s, a, b) == Take(Drop(s, a), b - a)

RECURSIVE TrimStart(_)
TrimStart(s) ==
  IF s # <<>> /\ IsSpace(Head(s).c) THEN TrimStart(Tail(s)) ELSE s

RECURSIVE TrimEnd(_)
TrimEnd(s) ==
  IF s # <<>> /\ IsSpace(s[Len(s)].c) THEN TrimEnd(SubSeq(s, 1, Len(s) - 1)) ELSE s

\* String.prototype.trim()
StrTrim(s) == TrimEnd(TrimStart(s))

\* Array.prototype.slice(a, b) for 0 <= a
ArrSlice(arr, a, b) ==
  LET e == IF b < Len(arr) THEN b ELSE Len(arr)
  IN IF a >= e THEN <<>> ELSE SubSeq(arr, a + 1, e)

Min(a, b) == IF a <= b THEN a ELSE b

\* ------------------------------------------------------- ingest.js helpers

cleanText(s) == Norm(SelectSeq(s, LAMBDA r : r.c # Surrogate))

detectLang(s) == IF \E k \in 1..Len(s) : s[k].c = Arabic THEN "AR" ELSE "EN"

RECURSIVE chunkFrom(_, _, _, _)
chunkFrom(text, i, size, overlap) ==
  IF i >= StrLen(text) THEN <<>>
  ELSE LET part == StrTrim(StrSlice(text, i, i + size))
       IN (IF part # <<>> THEN <<part>> ELSE <<>>)
            \o chunkFrom(text, i + (size - overlap), size, overlap)

DefaultSize == 1200
DefaultOverlap == 150

chunkText(text, size, overlap) == chunkFrom(text, 0, size, overlap)

\* mutant of safeId: the name is lower-cased before it is hashed
safeIdLowered(s) == <<[sha1 |-> [k \in DOMAIN s |-> IF s[k] = "P" THEN "p" ELSE s[k]]]>>

\* The SHA-1 digest of s in hex, kept as one opaque token: equal inputs give
\* equal digests and, SHA-1 taken as collision free, distinct inputs give
\* distinct ones. The token stands for 40 characters of [0-9a-f].
safeId(s) == <<[sha1 |-> s]>>

\* decimal digits of n >= 0, as template literals print a number
RECURSIVE Dec(_)
Dec(n) == IF n < 10 THEN <<ToString(n)>> ELSE Dec(n \div 10) \o <<ToString(n % 10)>>

\* mutant of VectorId: the position within the batch
VectorIdInBatch(baseId, i, j) == baseId \o <<"-">> \o Dec(j)

\* `${baseId}-${i + j}`
VectorId(baseId, i, j) == baseId \o <<"-">> \o Dec(i + j)

\* --------------------------------------------------------- the data folder

Lower(c) == CASE c = "P" -> "p" [] c = "D" -> "d" [] c = "F" -> "f" [] OTHER -> c

DotPdf == <<".", "p", "d", "f">>

\* f.toLowerCase().endsWith('.pdf')
IsPdf(name) ==
  /\ Len(name) >= 4
  /\ [k \in 1..4 |-> Lower(name[Len(name) - 4 + k])] = DotPdf

\* filePath.replace(/\.pdf$/i, '.ocr.pdf')
OcrPath(name) ==
  IF IsPdf(name)
  THEN SubSeq(name, 1, Len(name) - 4) \o <<".", "o", "c", "r">> \o DotPdf
  ELSE name

\* A file of the data folder: readable is whether pdftotext can open it, layer
\* the text pdftotext prints for it, scan what ocrmypdf makes of its pages
\* (ok = FALSE: ocrmypdf exits with an error).
File(name, readable, layer, scanOk, scanText) ==
  [name |-> name, readable |-> readable, layer |-> layer,
   scan |-> [ok |-> scanOk, text |-> scanText]]

\* 9451 units; the second window (1050..2249) is white space only, and the
\* window that starts at 4200 cuts a surrogate pair (units 4199 and 4200)
LongText ==
  <<Run("a", 1000), Run(" ", 1300), Run("a", 1899), Run(Surrogate, 2),
    Run("a", 1799), Run(Arabic, 100), Run("a", 3351)>>

ScanText == <<Run(Arabic, 30), Run(" ", 1), Run("a", 5), Run("\n", 1)>>

LongPdf == File(<<"l", ".", "p", "d", "f">>, TRUE, LongText, TRUE, LongText)
BadPdf  == File(<<"b", ".", "p", "d", "f">>, FALSE, <<>>, FALSE, <<>>)
ScanPdf == File(<<"s", ".", "P", "D", "F">>, TRUE, <<Run("\n", 1)>>, TRUE, ScanText)
NotesTxt == File(<<"n", ".", "t", "x", "t">>, FALSE, <<>>, FALSE, <<>>)

\* a document of two chunks (windows 0..1199 and 1050..2099)
PharmText == <<Run("a", 2100)>>
PharmName == <<"p", "h", "a", "r", "m", "1", "0", "1", ".", "p", "d", "f">>
PharmPdf == File(PharmName, TRUE, PharmText, TRUE, PharmText)

\* the folders a behaviour may start from
InitialDirs ==
  { <<LongPdf, BadPdf, ScanPdf, NotesTxt>>,
    <<BadPdf, LongPdf>>,
    <<PharmPdf>>,
    <<NotesTxt>> }

FileNamed(dir, name) == dir[CHOOSE k \in 1..Len(dir) : dir[k].name = name]

Names(dir) == [k \in 1..Len(dir) |-> dir[k].name]

\* fs.readdirSync(dataDir).filter(f => f.toLowerCase().endsWith('.pdf'))
PdfsOf(dir) == SelectSeq(Names(dir), IsPdf)

\* pdftotext(filePath): the text, or an exception
pdftotext(dir, name) ==
  LET f == FileNamed(dir, name)
  IN IF f.readable THEN [ok |-> TRUE, text |-> f.layer]
     ELSE [ok |-> FALSE, text |-> <<>>]

\* tryOCR(filePath): ocrmypdf writes the recognised pages to ocrPath (replacing
\* a file of that name), or fails and writes nothing
tryOCR(dir, name) ==
  LET f == FileNamed(dir, name)
      out == File(OcrPath(name), TRUE, f.scan.text, TRUE, f.scan.text)
  IN IF ~f.scan.ok THEN [ok |-> FALSE, path |-> name, dir |-> dir]
     ELSE [ok |-> TRUE, path |-> out.name,
           dir |-> IF \E k \in 1..Len(dir) : dir[k].name = out.name
                   THEN [k \in 1..Len(dir) |->
                           IF dir[k].name = out.name THEN out ELSE dir[k]]
                   ELSE Append(dir, out)]

\* lines 101-117 of run(): the text of one document, or none (skip), and the
\* data folder as the OCR pass leaves it
Extract(dir, fname) ==
  LET first == pdftotext(dir, fname)
      text0 == IF first.ok THEN first.text ELSE <<>>
  IN IF StrTrim(text0) # <<>>
     THEN [skip |-> FALSE, text |-> text0, dir |-> dir]
     ELSE LET ocr == tryOCR(dir, fname)
              again == pdftotext(ocr.dir, ocr.path)
          IN IF ocr.ok /\ again.ok
             THEN [skip |-> FALSE, text |-> again.text, dir |-> ocr.dir]
             ELSE [skip |-> TRUE, text |-> <<>>, dir |-> ocr.dir]

\* ------------------------------------------------------------------- state

VARIABLES
  dataDir,    \* ./data: the files, in directory order
  index,      \* the vector index: a set of records {id, values, metadata}
  ing,        \* run() of ingest.js: its position and locals
  eb,         \* the running call of embedBatchWithRetry
  docState,   \* this run's documents, [doc, st]: Pending, Embedding, Done, Skipped
  batchLog,   \* this run's finished batches: [doc, i, outcome]
  upserted,   \* every vector handed to index.upsert: [doc, pos, id, text]
  runs,       \* ingestion runs started
  exit,       \* how the last run ended: none, ok, error
  srv,        \* the server process: which build runs, and its environment
  req,        \* the body of the /query request being handled
  q,          \* the /query handler: its position and locals
  calls,      \* upstream calls made for the request being handled
  resp,       \* the response sent for it
  ck          \* a call of chunkText with arguments of its own: position and locals

ingVars == <<dataDir, index, ing, eb, docState, batchLog, upserted, runs, exit>>
srvVars == <<srv, req, q, calls, resp>>
vars == <<dataDir, index, ing, eb, docState, batchLog, upserted, runs, exit,
          srv, req, q, calls, resp, ck>>

\* ------------------------------------------------ embedding service errors

\* An error of openai.embeddings.create: its status (0: none, a network
\* error), whether its message matches /rate limit/i, and the x of "try again
\* in <x>s" in tenths of a second (-1: the message has no such hint).
EmbedErrors ==
  { [status |-> 429, rateText |-> FALSE, hint |-> -1],
    [status |-> 429, rateText |-> TRUE,  hint |-> 25],
    [status |-> 0,   rateText |-> TRUE,  hint |-> -1],
    [status |-> 500, rateText |-> FALSE, hint |-> -1],
    [status |-> 0,   rateText |-> FALSE, hint |-> -1] }

NoError == [status |-> 0, rateText |-> FALSE, hint |-> -2]

is429(e) == e.status = 429 \/ e.rateText

BATCH == 8
DefaultRetries == 5
DefaultBaseDelayMs == 1500
DelayCapMs == 15000
FailPauseMs == 3000
PacingMs == 300

RECURSIVE Pow2(_)
Pow2(n) == IF n = 0 THEN 1 ELSE 2 * Pow2(n - 1)

\* mutant of RetryDelay: the cap is forgotten
RetryDelayNoCap(e, attempt, baseDelayMs) ==
  IF e.hint >= 0 THEN e.hint * 100 ELSE baseDelayMs * Pow2(attempt)

\* serverWait ?? Math.min(baseDelayMs * (2 ** attempt), 15000)
RetryDelay(e, attempt, baseDelayMs) ==
  IF e.hint >= 0 THEN e.hint * 100
  ELSE Min(baseDelayMs * Pow2(attempt), DelayCapMs)

\* mutants of ShouldThrow: one retry too many; every error retried
ShouldThrowOffByOne(e, attempt, retries) == ~is429(e) \/ attempt > retries
ShouldThrowRetryAll(e, attempt, retries) == attempt >= retries

\* the catch of embedBatchWithRetry: rethrow, or wait and call again
ShouldThrow(e, attempt, retries) == ~is429(e) \/ attempt >= retries

\* the vector the embedding service returns for one input text
Embedding(text) == [emb |-> text]

\* ---------------------------------------------------------------- ingest.js

IngOff == [pc |-> "off", pdfs |-> <<>>, fi |-> 0, chunks |-> <<>>, i |-> 0,
           batchTexts |-> <<>>, vectors |-> <<>>, delay |-> 0]

EbIdle == [attempt |-> 0, retries |-> 0, baseDelayMs |-> 0, calls |-> 0,
           sleeps |-> 0, outcome |-> "none", error |-> NoError]

Fname == ing.pdfs[ing.fi]

\* the query handler is between requests (the two programs share only the
\* index, which a request reads in one call)
ServerQuiet == q.pc = "idle"

\* run(), lines 85-92: the environment and the data folder are checked, the
\* PDFs listed
RunStart ==
  /\ ing.pc = "off"
  /\ ServerQuiet
  /\ runs < MaxRuns
  /\ runs' = runs + 1
  /\ batchLog' = <<>>
  /\ eb' = EbIdle
  /\ \E envOk \in BOOLEAN :
       LET pdfs == PdfsOf(dataDir)
       IN IF ~envOk \/ pdfs = <<>>
          THEN /\ ing' = IngOff
               /\ exit' = "error"
               /\ docState' = <<>>
          ELSE /\ ing' = [IngOff EXCEPT !.pc = "doc", !.pdfs = pdfs, !.fi = 1]
               /\ exit' = "none"
               /\ docState' = [k \in 1..Len(pdfs) |-> [doc |-> pdfs[k], st |-> "Pending"]]
  /\ UNCHANGED <<dataDir, index, upserted, srvVars, ck>>

\* mutant of AfterDoc: a skipped document ends the run
AfterDocAbort(st) ==
  IF st # "Skipped" /\ ing.fi < Len(ing.pdfs)
  THEN /\ ing' = [IngOff EXCEPT !.pc = "doc", !.pdfs = ing.pdfs, !.fi = ing.fi + 1]
       /\ exit' = exit
       /\ docState' = [docState EXCEPT ![ing.fi].st = st]
  ELSE /\ ing' = IngOff
       /\ exit' = IF st = "Skipped" THEN "error" ELSE "ok"
       /\ docState' = [docState EXCEPT ![ing.fi].st = st]

\* the for-of loop moves to the document after fi, or run() returns
AfterDoc(st) ==
  IF ing.fi < Len(ing.pdfs)
  THEN /\ ing' = [IngOff EXCEPT !.pc = "doc", !.pdfs = ing.pdfs, !.fi = ing.fi + 1]
       /\ exit' = exit
       /\ docState' = [docState EXCEPT ![ing.fi].st = st]
  ELSE /\ ing' = IngOff
       /\ exit' = "ok"
       /\ docState' = [docState EXCEPT ![ing.fi].st = st]

\* lines 97-126: extraction, the OCR fallback, chunking
BeginDoc ==
  /\ ing.pc = "doc"
  /\ \E x \in {Extract(dataDir, Fname)} :
     \E chunks \in {chunkText(x.text, DefaultSize, DefaultOverlap)} :
        /\ dataDir' = x.dir
        /\ IF x.skip \/ chunks = <<>>
           THEN AfterDoc("Skipped")
           ELSE /\ ing' = [ing EXCEPT !.pc = "batch", !.chunks = chunks, !.i = 0]
                /\ docState' = [docState EXCEPT ![ing.fi].st = "Embedding"]
                /\ exit' = exit
  /\ UNCHANGED <<index, eb, batchLog, upserted, runs, srvVars, ck>>

\* lines 128-132 and 60-67: the batch is cut and cleaned, embedBatchWithRetry is
\* entered with its defaults and makes its first call
BeginBatch ==
  /\ ing.pc = "batch"
  /\ ing' = [ing EXCEPT !.pc = "embedding",
                        !.batchTexts = [k \in 1..Len(ArrSlice(ing.chunks, ing.i, ing.i + BATCH)) |->
                                          cleanText(ArrSlice(ing.chunks, ing.i, ing.i + BATCH)[k])]]
  /\ eb' = [attempt |-> 0, retries |-> DefaultRetries, baseDelayMs |-> DefaultBaseDelayMs,
            calls |-> 1, sleeps |-> 0, outcome |-> "pending", error |-> NoError]
  /\ UNCHANGED <<dataDir, index, docState, batchLog, upserted, runs, exit, srvVars, ck>>

\* lines 139-149: one vector per embedding returned
BuildVectors(fname, i, batchTexts, embeddings) ==
  [j \in 1..Len(embeddings) |->
     [id |-> VectorId(safeId(fname), i, j - 1),
      values |-> embeddings[j],
      metadata |-> [text |-> batchTexts[j],
                    source |-> fname,
                    lang |-> detectLang(batchTexts[j]),
                    stage |-> "3rd",
                    subject |-> "Pharmacology"]]]

\* mutant of EmbedOk: the vectors are kept for later instead of being upserted
EmbedOkBuffered ==
  /\ ing.pc = "embedding"
  /\ eb' = [eb EXCEPT !.outcome = "returned"]
  /\ ing' = [ing EXCEPT !.pc = "pacing",
                        !.vectors = BuildVectors(Fname, ing.i, ing.batchTexts,
                                      [k \in 1..Len(ing.batchTexts) |-> Embedding(ing.batchTexts[k])])]
  /\ UNCHANGED <<dataDir, index, docState, batchLog, upserted, runs, exit, srvVars, ck>>

\* the call returns the vectors: embedBatchWithRetry returns them (line 68),
\* run() builds the records and calls index.upsert (line 151)
EmbedOk ==
  /\ ing.pc = "embedding"
  /\ eb' = [eb EXCEPT !.outcome = "returned"]
  /\ ing' = [ing EXCEPT !.pc = "upserting",
                        !.vectors = BuildVectors(Fname, ing.i, ing.batchTexts,
                                      [k \in 1..Len(ing.batchTexts) |-> Embedding(ing.batchTexts[k])])]
  /\ UNCHANGED <<dataDir, index, docState, batchLog, upserted, runs, exit, srvVars, ck>>

\* the call fails (lines 69-78): the error is rethrown to run(), which logs it
\* and pauses (lines 133-136), or embedBatchWithRetry sleeps before a retry
EmbedFail ==
  /\ ing.pc = "embedding"
  /\ \E e \in EmbedErrors :
       IF ShouldThrow(e, eb.attempt, eb.retries)
       THEN /\ eb' = [eb EXCEPT !.outcome = "threw", !.error = e]
            /\ ing' = [ing EXCEPT !.pc = "pause", !.delay = FailPauseMs]
            /\ batchLog' = Append(batchLog, [doc |-> Fname, i |-> ing.i, outcome |-> "skipped"])
       ELSE /\ eb' = [eb EXCEPT !.sleeps = @ + 1, !.error = e]
            /\ ing' = [ing EXCEPT !.pc = "backoff",
                                  !.delay = RetryDelay(e, eb.attempt, eb.baseDelayMs)]
            /\ batchLog' = batchLog
  /\ UNCHANGED <<dataDir, index, docState, upserted, runs, exit, srvVars, ck>>

\* the sleep of line 77 ends: attempt++ and the next call
BackoffDone ==
  /\ ing.pc = "backoff"
  /\ eb' = [eb EXCEPT !.attempt = @ + 1, !.calls = @ + 1, !.error = NoError]
  /\ ing' = [ing EXCEPT !.pc = "embedding", !.delay = 0]
  /\ UNCHANGED <<dataDir, index, docState, batchLog, upserted, runs, exit, srvVars, ck>>

\* i += BATCH: the next batch of the document, or the document is finished;
\* the frame of embedBatchWithRetry is gone
AfterBatch ==
  IF ing.i + BATCH < Len(ing.chunks)
  THEN /\ ing' = [ing EXCEPT !.pc = "batch", !.i = @ + BATCH, !.delay = 0,
                             !.batchTexts = <<>>, !.vectors = <<>>]
       /\ eb' = EbIdle
       /\ UNCHANGED <<docState, exit>>
  ELSE /\ AfterDoc("Done")
       /\ eb' = EbIdle

\* mutant of PauseDone: break instead of continue
PauseDoneBreak ==
  /\ ing.pc = "pause"
  /\ AfterDoc("Done")
  /\ eb' = EbIdle
  /\ UNCHANGED <<dataDir, index, batchLog, upserted, runs, srvVars, ck>>

\* the sleep(3000) of line 135 ends: continue
PauseDone ==
  /\ ing.pc = "pause"
  /\ AfterBatch
  /\ UNCHANGED <<dataDir, index, batchLog, upserted, runs, srvVars, ck>>

\* index.upsert: a record replaces the record of the same id
Upsert(idx, vectors) ==
  {r \in idx : \A j \in 1..Len(vectors) : vectors[j].id # r.id}
    \cup {vectors[j] : j \in 1..Len(vectors)}

\* mutant of UpsertOk: the pacing sleep is made between the batches of one
\* document only
UpsertOkPaceWithinDoc ==
  /\ ing.pc = "upserting"
  /\ index' = Upsert(index, ing.vectors)
  /\ upserted' = upserted \cup
       {[doc |-> Fname, pos |-> ing.i + j - 1, id |-> ing.vectors[j].id,
         text |-> ing.vectors[j].metadata.text] : j \in 1..Len(ing.vectors)}
  /\ batchLog' = Append(batchLog, [doc |-> Fname, i |-> ing.i, outcome |-> "upserted"])
  /\ IF ing.i + BATCH < Len(ing.chunks)
     THEN /\ ing' = [ing EXCEPT !.pc = "pacing", !.delay = PacingMs]
          /\ UNCHANGED <<eb, docState, exit>>
     ELSE /\ AfterDoc("Done")
          /\ eb' = EbIdle
  /\ UNCHANGED <<dataDir, runs, srvVars, ck>>

\* index.upsert resolves (line 151); run() logs and sleeps 300 ms (line 153)
UpsertOk ==
  /\ ing.pc = "upserting"
  /\ index' = Upsert(index, ing.vectors)
  /\ upserted' = upserted \cup
       {[doc |-> Fname, pos |-> ing.i + j - 1, id |-> ing.vectors[j].id,
         text |-> ing.vectors[j].metadata.text] : j \in 1..Len(ing.vectors)}
  /\ batchLog' = Append(batchLog, [doc |-> Fname, i |-> ing.i, outcome |-> "upserted"])
  /\ ing' = [ing EXCEPT !.pc = "pacing", !.delay = PacingMs]
  /\ UNCHANGED <<dataDir, eb, docState, runs, exit, srvVars, ck>>

\* mutant of UpsertFail: the rejection is caught like that of the embedding
\* call and the loop goes on
UpsertFailSkipsBatch ==
  /\ ing.pc = "upserting"
  /\ batchLog' = Append(batchLog, [doc |-> Fname, i |-> ing.i, outcome |-> "upsertFailed"])
  /\ AfterBatch
  /\ UNCHANGED <<dataDir, index, upserted, runs, srvVars, ck>>

\* index.upsert rejects: nothing catches it in run(), so run() rejects and the
\* process exits with status 1 (lines 162-165)
UpsertFail ==
  /\ ing.pc = "upserting"
  /\ batchLog' = Append(batchLog, [doc |-> Fname, i |-> ing.i, outcome |-> "upsertFailed"])
  /\ ing' = IngOff
  /\ eb' = EbIdle
  /\ exit' = "error"
  /\ UNCHANGED <<dataDir, index, docState, upserted, runs, srvVars, ck>>

\* mutant of PacingDone: the timer of the pacing sleep is never resolved
PacingDoneUnresolved ==
  /\ ing.pc = "pacing"
  /\ ing.delay = 0
  /\ AfterBatch
  /\ UNCHANGED <<dataDir, index, batchLog, upserted, runs, srvVars, ck>>

\* the sleep(300) of line 153 ends
PacingDone ==
  /\ ing.pc = "pacing"
  /\ AfterBatch
  /\ UNCHANGED <<dataDir, index, batchLog, upserted, runs, srvVars, ck>>

IngestNext ==
  \/ RunStart
  \/ BeginDoc
  \/ BeginBatch
  \/ EmbedOk
  \/ EmbedFail
  \/ BackoffDone
  \/ PauseDone
  \/ UpsertOk
  \/ UpsertFail
  \/ PacingDone

\* ------------------------------------------------- server.js and part_000

\* JavaScript values of a request body and of a response: undefined, a number,
\* a string. Questions are texts (run-length encoded, v = <<>> the empty
\* string); lang, stage and subject are short strings (v = "" the empty one).
Undefined == [t |-> "undefined", v |-> <<>>]
JsNumber(n) == [t |-> "number", v |-> n]
JsText(s) == [t |-> "string", v |-> s]
JsWord(w) == [t |-> "string", v |-> w]

\* the two builds of the server under src/
Builds == {"server.js", "part_000"}

\* OPENAI_API_KEY, PINECONE_API_KEY, PINECONE_INDEX: set (non-empty) or not
ServerEnvs ==
  { [openai |-> TRUE,  pcKey |-> TRUE,  pcIndex |-> TRUE],
    [openai |-> FALSE, pcKey |-> TRUE,  pcIndex |-> TRUE],
    [openai |-> TRUE,  pcKey |-> FALSE, pcIndex |-> TRUE],
    [openai |-> TRUE,  pcKey |-> TRUE,  pcIndex |-> FALSE] }

Questions ==
  { Undefined, JsNumber(5), JsText(<<>>), JsText(<<Run(" ", 2)>>),
    JsText(<<Run("a", 20), Run(" ", 1)>>) }

Bodies ==
  [question : Questions,
   lang : {Undefined, JsWord("AR")},
   stage : {Undefined, JsWord("3rd")},
   subject : {Undefined, JsWord(""), JsWord("Pharmacology")}]

NoBody == [question |-> Undefined, lang |-> Undefined, stage |-> Undefined,
           subject |-> Undefined]

SrvDown == [build |-> "none", env |-> [openai |-> FALSE, pcKey |-> FALSE, pcIndex |-> FALSE]]

NoCalls == [embed |-> 0, index |-> 0, chat |-> 0]

\* an answer is the string head \o body: head the literal part of a template,
\* body the text put after it
Answer(head, body) == [head |-> head, body |-> body]

NoResp == [status |-> 0, error |-> "", detail |-> "", answer |-> Answer("", <<>>),
           sources |-> <<>>]

NoChat == [kind |-> "none", content |-> <<>>]

\* embed, indexed and chat record how the three upstream calls of the request
\* ended ("none": not made, or not yet settled)
QIdle == [pc |-> "idle", lang |-> "", filter |-> <<>>, matches |-> <<>>,
          context |-> <<>>, embed |-> "none", indexed |-> "none", chat |-> NoChat]

\* mutant of BadQuestion: the trim is forgotten
BadQuestionNoTrim(question) ==
  \/ question.t = "undefined"
  \/ question.t = "number"
  \/ question.t = "string" /\ question.v = <<>>

\* !question || typeof question !== 'string' || !question.trim()
BadQuestion(question) ==
  \/ question.t = "undefined"
  \/ question.t = "number"
  \/ question.t = "string" /\ StrTrim(question.v) = <<>>

\* const { lang = 'EN' } = req.body: the default replaces undefined only
LangOf(body) == IF body.lang.t = "undefined" THEN "EN" ELSE body.lang.v

\* `${lang || 'EN'}`
LangOrEN(lang) == IF lang = "" THEN "EN" ELSE lang

\* cleanFilter / buildFilter: the truthy ones of stage and subject. A filter is
\* a set of <<field, value>> equalities; <<>> stands for undefined (no filter).
Truthy(w) == w.t = "string" /\ w.v # ""

FilterKeys(stage, subject) ==
  (IF Truthy(stage) THEN {<<"stage", stage.v>>} ELSE {})
    \cup (IF Truthy(subject) THEN {<<"subject", subject.v>>} ELSE {})

\* mutant of cleanFilter: the object is returned even when it has no key
cleanFilterEmptyObject(stage, subject) == <<FilterKeys(stage, subject)>>

cleanFilter(stage, subject) ==
  IF FilterKeys(stage, subject) = {} THEN <<>> ELSE <<FilterKeys(stage, subject)>>

\* the records an index query with this filter may return
Passes(r, filter) ==
  \/ filter = <<>>
  \/ \A kv \in filter[1] : r.metadata[kv[1]] = kv[2]

\* index.query: at most topK (in the model MaxMatches) records that pass the
\* filter, each once, in the order of their scores
TopK == 5

RECURSIVE Rankings(_, _)
Rankings(S, k) ==
  IF k = 0 \/ S = {} THEN {<<>>}
  ELSE {<<>>} \cup UNION {{<<r>> \o rest : rest \in Rankings(S \ {r}, k - 1)} : r \in S}

QueryResults(idx, filter) ==
  LET hits == Rankings({r \in idx : Passes(r, filter)}, Min(TopK, MaxMatches))
  IN {[k \in 1..Len(h) |-> [id |-> h[k].id, score |-> Len(h) - k + 1,
                            metadata |-> h[k].metadata]] : h \in hits}

\* m?.metadata?.<name>
Prop(md, name) ==
  IF name \in DOMAIN md THEN JsWord(md[name]) ELSE Undefined

\* mapMatches / mapSources
mapMatches(matches) ==
  [k \in 1..Len(matches) |->
     [id |-> matches[k].id,
      score |-> matches[k].score,
      file |-> Prop(matches[k].metadata, "file"),
      lang |-> Prop(matches[k].metadata, "lang"),
      stage |-> Prop(matches[k].metadata, "stage"),
      subject |-> Prop(matches[k].metadata, "subject")]]

\* `[#${i + 1}] ${m?.metadata?.text || ''}`
ContextLine(m, k) ==
  Concat(Str(<<"[", "#">> \o Dec(k) \o <<"]", " ">>),
         IF "text" \in DOMAIN m.metadata THEN m.metadata.text ELSE <<>>)

RECURSIVE JoinLines(_)
JoinLines(lines) ==
  IF lines = <<>> THEN <<>>
  ELSE IF Len(lines) = 1 THEN lines[1]
  ELSE Concat(Concat(lines[1], <<Run("\n", 1)>>), JoinLines(Tail(lines)))

\* matches.map(...).join('\n').trim()
BuildContext(matches) ==
  StrTrim(JoinLines([k \in 1..Len(matches) |-> ContextLine(matches[k], k)]))

\* mutant of FallbackAnswer: the empty context is not told apart
FallbackAnswerNoEmptyCase(build, lang, context) ==
  IF build = "server.js"
  THEN Answer("(" \o LangOrEN(lang) \o ") Answer based on retrieved context:\n\n", context)
  ELSE Answer("(" \o LangOrEN(lang) \o ") Based on retrieved context:\n\n", context)

\* the catch of genAnswer (server.js) and of openaiAnswer (part_000)
FallbackAnswer(build, lang, context) ==
  IF context # <<>>
  THEN IF build = "server.js"
       THEN Answer("(" \o LangOrEN(lang) \o ") Answer based on retrieved context:\n\n", context)
       ELSE Answer("(" \o LangOrEN(lang) \o ") Based on retrieved context:\n\n", context)
  ELSE Answer("(" \o LangOrEN(lang) \o ") No relevant context found.", <<>>)

\* what the completion service may answer: a body with a completion (here " aaa "
\* and the empty one), a body without choices, a non-OK status, a body that is
\* no JSON, or no answer at all (fetch rejects)
ChatOutcomes ==
  { [kind |-> "content", content |-> <<Run(" ", 1), Run("a", 3), Run(" ", 1)>>],
    [kind |-> "content", content |-> <<>>],
    [kind |-> "nochoices", content |-> <<>>],
    [kind |-> "status", content |-> <<>>],
    [kind |-> "badjson", content |-> <<>>],
    [kind |-> "network", content |-> <<>>] }

\* mutant of ChatFailed: the fetch and the parsing are outside the try
ChatFailedStatusOnly(o) == o.kind = "status"

\* the outcomes that end in the catch: the throw of the non-OK branch, a
\* rejected fetch, a rejected r.json()
ChatFailed(o) == o.kind \in {"status", "badjson", "network"}

\* genAnswer / openaiAnswer, from the answer of the completion service on
genAnswer(build, lang, context, o) ==
  IF ChatFailed(o) THEN FallbackAnswer(build, lang, context)
  ELSE Answer("", StrTrim(o.content))

\* what the embedding service may answer to embed(question): a vector, a body
\* without data, a non-OK status, or nothing (fetch rejects)
QEmbedOutcomes ==
  { [kind |-> "vector", status |-> 200], [kind |-> "nodata", status |-> 200],
    [kind |-> "status", status |-> 401], [kind |-> "status", status |-> 429],
    [kind |-> "network", status |-> 0] }

\* the message of the Error embed / openaiEmb throws
EmbedMessage(build, o) ==
  IF o.kind = "network" THEN "fetch failed"
  ELSE IF build = "server.js"
       THEN "OpenAI embeddings error " \o ToString(o.status) \o ": "
       ELSE "OpenAI embeddings " \o ToString(o.status) \o ": "

\* e?.response?.data || e?.message || String(e)
Detail(message) == IF message # "" THEN message ELSE "Error"

Reject(status, error) == [NoResp EXCEPT !.status = status, !.error = error]

QueryFailed(message) ==
  [NoResp EXCEPT !.status = 500, !.error = "Query failed", !.detail = Detail(message)]

\* lines 208-213 of server.js, 140-146 of part_000: the response that ends the
\* request before any upstream call, or NoResp when the request goes on
Validate(build, env, body) ==
  IF BadQuestion(body.question) THEN Reject(400, "Missing question")
  ELSE IF ~env.openai THEN Reject(500, "Server missing OPENAI_API_KEY")
  ELSE IF ~env.pcKey THEN Reject(500, "Server missing PINECONE_API_KEY")
  ELSE IF ~env.pcIndex THEN Reject(500, "Server missing PINECONE_INDEX")
  ELSE IF build = "part_000" /\ ~(env.pcKey /\ env.pcIndex)
       THEN Reject(500, "Pinecone index not initialized")
  ELSE NoResp

\* POST /query arrives at a server of some build and environment: validation,
\* then the call of embed(question)
Receive ==
  /\ q.pc = "idle"
  /\ ing.pc = "off"
  /\ \E build \in Builds, env \in ServerEnvs, body \in Bodies :
       /\ srv' = [build |-> build, env |-> env]
       /\ req' = body
       /\ IF Validate(build, env, body) # NoResp
          THEN /\ resp' = Validate(build, env, body)
               /\ q' = [QIdle EXCEPT !.pc = "responded", !.lang = LangOf(body)]
               /\ calls' = NoCalls
          ELSE /\ resp' = NoResp
               /\ q' = [QIdle EXCEPT !.pc = "embedding", !.lang = LangOf(body)]
               /\ calls' = [NoCalls EXCEPT !.embed = 1]
  /\ UNCHANGED <<ingVars, ck>>

\* embed(question) settles: the vector (or [] for a body without data) goes to
\* index.query with the filter, or the error reaches the catch of the handler.
\* The vector is not kept: the index of the model answers any ranking.
QEmbedReturn ==
  /\ q.pc = "embedding"
  /\ \E o \in QEmbedOutcomes :
       IF o.kind \in {"vector", "nodata"}
       THEN /\ q' = [q EXCEPT !.pc = "querying", !.embed = o.kind,
                              !.filter = cleanFilter(req.stage, req.subject)]
            /\ calls' = [calls EXCEPT !.index = @ + 1]
            /\ resp' = resp
       ELSE /\ q' = [q EXCEPT !.pc = "responded", !.embed = o.kind]
            /\ calls' = calls
            /\ resp' = QueryFailed(EmbedMessage(srv.build, o))
  /\ UNCHANGED <<ingVars, ck, srv, req>>

\* index.query resolves: the context is built and the completion service called
QIndexOk ==
  /\ q.pc = "querying"
  /\ \E matches \in QueryResults(index, q.filter) :
       q' = [q EXCEPT !.pc = "chatting", !.indexed = "ok", !.matches = matches,
                      !.context = BuildContext(matches)]
  /\ calls' = [calls EXCEPT !.chat = @ + 1]
  /\ UNCHANGED <<ingVars, ck, srv, req, resp>>

\* mutant of QIndexFail: the rejection is taken for an empty result
QIndexFailAsEmpty ==
  /\ q.pc = "querying"
  /\ q' = [q EXCEPT !.pc = "chatting", !.indexed = "failed"]
  /\ calls' = [calls EXCEPT !.chat = @ + 1]
  /\ UNCHANGED <<ingVars, ck, srv, req, resp>>

\* index.query rejects (authentication, no such index, network)
QIndexFail ==
  /\ q.pc = "querying"
  /\ \E message \in {"PineconeConnectionError", ""} :
       resp' = QueryFailed(message)
  /\ q' = [q EXCEPT !.pc = "responded", !.indexed = "failed"]
  /\ UNCHANGED <<ingVars, ck, srv, req, calls>>

\* the completion service settles: genAnswer returns and the handler responds
QChatReturn ==
  /\ q.pc = "chatting"
  /\ \E o \in ChatOutcomes :
       /\ resp' = [NoResp EXCEPT !.status = 200,
                                 !.answer = genAnswer(srv.build, q.lang, q.context, o),
                                 !.sources = mapMatches(q.matches)]
       /\ q' = [q EXCEPT !.pc = "responded", !.chat = o]
  /\ UNCHANGED <<ingVars, ck, srv, req, calls>>

\* the response is sent and the request is over
QDone ==
  /\ q.pc = "responded"
  /\ srv' = SrvDown
  /\ req' = NoBody
  /\ q' = QIdle
  /\ calls' = NoCalls
  /\ resp' = NoResp
  /\ UNCHANGED <<ingVars, ck>>

QueryNext ==
  \/ Receive
  \/ QEmbedReturn
  \/ QIndexOk
  \/ QIndexFail
  \/ QChatReturn
  \/ QDone

\* ------------------------------------------------- chunkText, step by step

\* String.prototype.slice(a, b) for any integers: a negative index counts from
\* the end, both are clamped to 0..length, and the result is empty when the
\* start is not before the end
JsSlice(s, a, b) ==
  LET len == StrLen(s)
      from == IF a < 0 THEN (IF len + a > 0 THEN len + a ELSE 0) ELSE Min(a, len)
      to == IF b < 0 THEN (IF len + b > 0 THEN len + b ELSE 0) ELSE Min(b, len)
  IN IF from >= to THEN <<>> ELSE Take(Drop(s, from), to - from)

\* the texts, sizes and overlaps of the calls
ChunkTexts ==
  {Str(t) : t \in UNION {[1..n -> {"a", " "}] : n \in 0..MaxTextLen}}
ChunkSizes == 1..MaxSize
ChunkOverlaps == 0..MaxSize

\* iterations after which a call that makes no progress is left alone
MaxSteps == MaxTextLen + 2

CkIdle == [pc |-> "idle", text |-> <<>>, size |-> 0, overlap |-> 0,
           i |-> 0, chunks |-> <<>>, spans |-> <<>>, steps |-> 0]

\* mutant of Advance: the overlap is added instead of subtracted
AdvanceSkipping(i, size, overlap) == i + (size + overlap)

\* i += (size - overlap)
Advance(i, size, overlap) == i + (size - overlap)

\* chunkText(text, size, overlap) is entered: chunks = [], i = 0
ChunkCall ==
  /\ ck.pc = "idle"
  /\ \E text \in ChunkTexts, size \in ChunkSizes, overlap \in ChunkOverlaps :
       ck' = [CkIdle EXCEPT !.pc = "loop", !.text = text, !.size = size,
                            !.overlap = overlap]
  /\ UNCHANGED <<ingVars, srvVars>>

\* one iteration of the for loop. spans remembers, for each chunk pushed,
\* the offset of its first unit in text (the window's start plus the white
\* space trimmed in front).
ChunkStep ==
  /\ ck.pc = "loop"
  /\ ck.i < StrLen(ck.text)
  /\ ck.steps < MaxSteps
  /\ LET window == JsSlice(ck.text, ck.i, ck.i + ck.size)
         part == StrTrim(window)
         at == (IF ck.i < 0 THEN (IF StrLen(ck.text) + ck.i > 0
                                  THEN StrLen(ck.text) + ck.i ELSE 0)
                ELSE ck.i)
               + (StrLen(window) - StrLen(TrimStart(window)))
     IN ck' = [ck EXCEPT
                 !.chunks = IF part # <<>> THEN Append(@, part) ELSE @,
                 !.spans = IF part # <<>>
                           THEN Append(@, [at |-> at, len |-> StrLen(part)])
                           ELSE @,
                 !.i = Advance(ck.i, ck.size, ck.overlap),
                 !.steps = @ + 1]
  /\ UNCHANGED <<ingVars, srvVars>>

\* the loop condition fails: return chunks
ChunkReturn ==
  /\ ck.pc = "loop"
  /\ ck.i >= StrLen(ck.text)
  /\ ck' = [ck EXCEPT !.pc = "returned"]
  /\ UNCHANGED <<ingVars, srvVars>>

\* the caller is done with the result (or gave up waiting for it)
ChunkDone ==
  /\ \/ ck.pc = "returned"
     \/ ck.pc = "loop" /\ ck.steps = MaxSteps
  /\ ck' = CkIdle
  /\ UNCHANGED <<ingVars, srvVars>>

ChunkNext ==
  \/ ChunkCall
  \/ ChunkStep
  \/ ChunkReturn
  \/ ChunkDone

\* ---------------------------------------------------------- specifications

\* small documents: one of two chunks, one that needs OCR, one that cannot be read
MidText == <<Run(Arabic, 100), Run("a", 2000)>>
MidPdf == File(<<"m", ".", "p", "d", "f">>, TRUE, MidText, TRUE, MidText)

\* a scanned document of astral characters only (surrogate pairs)
GlyphPdf == File(<<"g", ".", "p", "d", "f">>, TRUE, <<>>, TRUE, <<Run(Surrogate, 4)>>)

ServedDirs == { <<MidPdf, BadPdf, GlyphPdf>> }

IdleState ==
  /\ index = {}
  /\ ing = IngOff
  /\ eb = EbIdle
  /\ docState = <<>>
  /\ batchLog = <<>>
  /\ upserted = {}
  /\ runs = 0
  /\ exit = "none"
  /\ srv = SrvDown
  /\ req = NoBody
  /\ q = QIdle
  /\ calls = NoCalls
  /\ resp = NoResp
  /\ ck = CkIdle

\* ingestion alone, over folders with a document of several batches
InitIngest == dataDir \in InitialDirs /\ IdleState

SpecIngest == InitIngest /\ [][IngestNext]_vars

\* ingestion where every call that was made returns and every timer fires:
\* each await of run() and of embedBatchWithRetry is resumed. Whether a run is
\* started at all is left open.
SpecIngestFair ==
  /\ SpecIngest
  /\ WF_vars(BeginDoc)
  /\ WF_vars(BeginBatch)
  /\ WF_vars(EmbedOk \/ EmbedFail)
  /\ WF_vars(BackoffDone)
  /\ WF_vars(PauseDone)
  /\ WF_vars(UpsertOk \/ UpsertFail)
  /\ WF_vars(PacingDone)

\* ingestion runs and, between them, requests to the server
Init == dataDir \in ServedDirs /\ IdleState

Next == IngestNext \/ QueryNext

Spec == Init /\ [][Next]_vars

\* calls of chunkText alone, next to an empty data folder
InitChunk == dataDir = <<NotesTxt>> /\ IdleState

SpecChunk == InitChunk /\ [][ChunkNext]_vars

\* ------------------------------------------------------------------ claims

\* a rate-limit failure: status 429, or a message that says "rate limit"
RateLimitFailure(e) == e.status = 429 \/ e.rateText

\* C1: embedBatchWithRetry makes at most retries+1 calls; when it returns, the
\* calls before the last one all failed on the rate limit (each followed by one
\* sleep), the last one succeeded and its vectors are the result, with no error;
\* when every call failed on the rate limit it throws after exactly retries+1
\* calls, 6 with the default retries = 5.
C1_RetryCeiling ==
  /\ eb.calls <= eb.retries + 1
  /\ eb.outcome # "none" => eb.retries = 5
  /\ eb.outcome = "returned" =>
       /\ eb.calls = eb.sleeps + 1
       /\ eb.sleeps <= eb.retries
       /\ eb.error = NoError
       /\ ing.pc \in {"upserting", "pacing"}
       /\ Len(ing.vectors) = Len(ing.batchTexts)
       /\ \A j \in 1..Len(ing.vectors) :
            ing.vectors[j].values = [emb |-> ing.batchTexts[j]]
  /\ (eb.outcome = "threw" /\ RateLimitFailure(eb.error)) =>
       /\ eb.sleeps = eb.retries
       /\ eb.calls = eb.retries + 1
       /\ eb.calls = 6

C1_Witness ==
  /\ eb.outcome = "threw"
  /\ RateLimitFailure(eb.error)
  /\ eb.calls = 6
  /\ \E n \in 1..Len(batchLog) : batchLog[n].outcome = "upserted"

\* C10: an embedding error that is no rate-limit failure is thrown to the caller
\* from the call that met it: embedBatchWithRetry does not sleep on it (it sleeps
\* only after rate-limit failures, once per failed call before) and makes no
\* call after it.
C10_OtherErrorsPropagate ==
  /\ (eb.error # NoError /\ ~RateLimitFailure(eb.error)) =>
       /\ eb.outcome = "threw"
       /\ ing.pc = "pause"
       /\ eb.calls = eb.attempt + 1
       /\ eb.sleeps = eb.attempt
  /\ ing.pc = "backoff" => RateLimitFailure(eb.error)
  /\ ing.pc = "embedding" => eb.error = NoError

C10_Witness ==
  /\ eb.outcome = "threw"
  /\ ~RateLimitFailure(eb.error)
  /\ eb.attempt = 2
  /\ eb.calls = 3
  /\ eb.sleeps = 2

\* the chunks run() cuts from a document of the data folder
ChunksOfDoc(doc) ==
  chunkText(Extract(dataDir, doc).text, DefaultSize, DefaultOverlap)

AllSpace(s) == \A k \in 1..Len(s) : IsSpace(s[k].c)

\* text extraction yields no text for the file and its OCR fallback fails
NoTextAndOcrFails(doc) ==
  LET f == FileNamed(dataDir, doc)
  IN (~f.readable \/ AllSpace(f.layer)) /\ ~f.scan.ok

LogFor(doc) == {n \in 1..Len(batchLog) : batchLog[n].doc = doc}

\* C5: a document without text whose OCR fails becomes Skipped with no
\* embedding or upsert call made for it, and the run goes on with the document
\* after it (or ends normally when it was the last): a run is aborted only at
\* its start or by a failed upsert.
C5_BadDocumentSkipped ==
  /\ \A k \in 1..Len(docState) :
       NoTextAndOcrFails(docState[k].doc) =>
         /\ docState[k].st \in {"Pending", "Skipped"}
         /\ LogFor(docState[k].doc) = {}
         /\ \A u \in upserted : u.doc # docState[k].doc
         /\ ing.pc \notin {"off", "doc"} => Fname # docState[k].doc
         /\ (docState[k].st = "Skipped" /\ k < Len(docState)) =>
              \/ docState[k + 1].st # "Pending"
              \/ ing.pc = "doc" /\ ing.fi = k + 1
         /\ (docState[k].st = "Skipped" /\ k = Len(docState)) =>
              ing.pc = "off" /\ exit = "ok"
  /\ (ing.pc = "off" /\ exit = "error" /\ docState # <<>>) =>
       /\ batchLog # <<>>
       /\ batchLog[Len(batchLog)].outcome = "upsertFailed"
  /\ (ing.pc = "off" /\ exit = "ok") =>
       \A k \in 1..Len(docState) : docState[k].st \in {"Done", "Skipped"}

C5_Witness ==
  \E k \in 1..Len(docState) : \E k2 \in (k + 1)..Len(docState) :
    /\ NoTextAndOcrFails(docState[k].doc)
    /\ docState[k].st = "Skipped"
    /\ docState[k2].st = "Done"
    /\ \E n \in LogFor(docState[k2].doc) : batchLog[n].outcome = "upserted"

ExpectedId(doc, pos) == <<[sha1 |-> doc]>> \o <<"-">> \o Dec(pos)

IndexIds == {r.id : r \in index}

\* C6: a batch whose embedding failed is skipped after a pause of 3000 ms with
\* no upsert made for it (an upsert follows a returned embedding only), the
\* batch after it of the same document is taken up next, a document that is
\* Done has had every one of its batches embedded, and a batch that was
\* upserted has its records in the index.
C6_BatchFailureIsolated ==
  /\ ing.pc = "pause" =>
       /\ ing.delay = 3000
       /\ eb.outcome = "threw"
       /\ batchLog[Len(batchLog)] = [doc |-> Fname, i |-> ing.i, outcome |-> "skipped"]
  /\ ing.pc \in {"upserting", "pacing"} => eb.outcome = "returned"
  /\ \A n \in 1..Len(batchLog) :
       /\ \A m \in 1..Len(batchLog) :
            (batchLog[m].doc = batchLog[n].doc /\ batchLog[m].i = batchLog[n].i) => m = n
       /\ (batchLog[n].outcome = "skipped"
             /\ batchLog[n].i + 8 < Len(ChunksOfDoc(batchLog[n].doc))) =>
            IF n < Len(batchLog)
            THEN /\ batchLog[n + 1].doc = batchLog[n].doc
                 /\ batchLog[n + 1].i = batchLog[n].i + 8
            ELSE /\ ing.pc # "off"
                 /\ Fname = batchLog[n].doc
                 /\ \/ ing.pc = "pause" /\ ing.i = batchLog[n].i
                    \/ ing.pc # "pause" /\ ing.i = batchLog[n].i + 8
       /\ batchLog[n].outcome = "upserted" =>
            \A pos \in batchLog[n].i..(batchLog[n].i + 7) :
              pos < Len(ChunksOfDoc(batchLog[n].doc)) =>
                ExpectedId(batchLog[n].doc, pos) \in IndexIds
  /\ \A k \in 1..Len(docState) :
       docState[k].st = "Done" =>
         \A b \in 0..(Len(ChunksOfDoc(docState[k].doc)) - 1) :
           b % 8 = 0 =>
             \E n \in LogFor(docState[k].doc) :
               batchLog[n].i = b /\ batchLog[n].outcome \in {"skipped", "upserted"}

C6_Witness ==
  \E n \in 1..Len(batchLog) : \E m \in (n + 1)..Len(batchLog) :
    /\ batchLog[n].outcome = "skipped"
    /\ batchLog[m].doc = batchLog[n].doc
    /\ batchLog[m].i = batchLog[n].i + 8
    /\ batchLog[m].outcome = "upserted"

\* the documents of the data folder are those of the start: no run has added one
UnchangedDocs == dataDir \in InitialDirs

\* the ids one run without any failure writes for the data folder
FullIds ==
  UNION { {ExpectedId(PdfsOf(dataDir)[k], pos) :
             pos \in 0..(Len(ChunksOfDoc(PdfsOf(dataDir)[k])) - 1)} :
          k \in 1..Len(PdfsOf(dataDir)) }

\* every vector upserted has the id of its document and absolute position and
\* the (cleaned) text of that chunk, and the index holds one record per
\* (document, position) ever upserted, with that text
C4_OneRecordPerChunk ==
  /\ \A u \in upserted :
       /\ u.id = ExpectedId(u.doc, u.pos)
       /\ u.text = cleanText(ChunksOfDoc(u.doc)[u.pos + 1])
  /\ \A r \in index :
       \E u \in upserted :
         u.id = r.id /\ r.metadata.text = u.text /\ r.metadata.source = u.doc
  /\ IndexIds = {u.id : u \in upserted}
  /\ Cardinality(index) = Cardinality({<<u.doc, u.pos>> : u \in upserted})

InvalidQuestion(v) == v.t # "string" \/ AllSpace(v.v)

MissingSetting == ~srv.env.openai \/ ~srv.env.pcKey \/ ~srv.env.pcIndex

\* the lang the templates print: the request's, EN when missing or empty
PrintedLang == IF req.lang.t = "undefined" THEN "EN"
               ELSE IF req.lang.v = "" THEN "EN" ELSE req.lang.v

NoContextMessage == [head |-> "(" \o PrintedLang \o ") No relevant context found.",
                     body |-> <<>>]

CompletionFailed == q.chat.kind \in {"status", "badjson", "network"}

\* C8: a request with an invalid question is answered 400 'Missing question'
\* and one with a valid question but a missing credential or index setting 500
\* with a message naming the setting, both with no embedding, index or
\* completion call made.
C8_ValidationFirst ==
  q.pc # "idle" =>
    /\ InvalidQuestion(req.question) =>
         /\ q.pc = "responded"
         /\ resp.status = 400
         /\ resp.error = "Missing question"
         /\ calls = [embed |-> 0, index |-> 0, chat |-> 0]
    /\ (~InvalidQuestion(req.question) /\ MissingSetting) =>
         /\ q.pc = "responded"
         /\ resp.status = 500
         /\ resp.error \in {"Server missing OPENAI_API_KEY",
                            "Server missing PINECONE_API_KEY",
                            "Server missing PINECONE_INDEX"}
         /\ calls = [embed |-> 0, index |-> 0, chat |-> 0]

C8_Witness ==
  /\ q.pc = "responded"
  /\ req.question = [t |-> "string", v |-> <<[c |-> " ", n |-> 2]>>]
  /\ ~srv.env.pcIndex
  /\ resp.status = 400

\* C9: when the embedding of the question or the index query fails, the request
\* ends with 500 'Query failed' and a non-empty detail, not with a success
\* response, and the completion service is not called.
C9_UpstreamFailureIsFailure ==
  (q.embed \in {"status", "network"} \/ q.indexed = "failed") =>
    /\ q.pc = "responded"
    /\ resp.status = 500
    /\ resp.error = "Query failed"
    /\ resp.detail # ""
    /\ resp.sources = <<>>
    /\ resp.answer = [head |-> "", body |-> <<>>]
    /\ calls.chat = 0

C9_Witness ==
  /\ q.indexed = "failed"
  /\ index # {}
  /\ resp.status = 500
  /\ resp.detail = "PineconeConnectionError"

\* C3: when embedding and index query succeeded and the completion service
\* fails, the response is a success whose answer is the fallback template of the
\* build, made of lang and the context (the 'No relevant context found' message
\* for an empty context), with one source per match in match order.
C3_CompletionFailureFallsBack ==
  (q.pc = "responded" /\ CompletionFailed) =>
    /\ resp.status = 200
    /\ resp.error = ""
    /\ resp.answer =
         IF q.context = <<>> THEN NoContextMessage
         ELSE [head |-> "(" \o PrintedLang \o ") "
                          \o (IF srv.build = "server.js" THEN "Answer based" ELSE "Based")
                          \o " on retrieved context:\n\n",
               body |-> q.context]
    /\ Len(resp.sources) = Len(q.matches)
    /\ \A k \in 1..Len(q.matches) : resp.sources[k].id = q.matches[k].id

C3_Witness ==
  /\ q.pc = "responded"
  /\ q.chat.kind = "network"
  /\ Len(q.matches) = 2
  /\ req.lang = [t |-> "string", v |-> "AR"]
  /\ resp.status = 200
  /\ resp.answer.body = q.context

AllTextsEmpty(matches) == \A k \in 1..Len(matches) : matches[k].metadata.text = <<>>

C7_SourceFilePopulated ==
  (q.pc = "responded" /\ resp.status = 200) =>
    /\ Len(resp.sources) = Len(q.matches)
    /\ \A k \in 1..Len(q.matches) :
         \A u \in upserted :
           u.id = q.matches[k].id =>
             resp.sources[k].file = [t |-> "string", v |-> u.doc]

\* the details of a /query failure whose cause is a 429 of the embedding service
RateLimitDetails ==
  {"OpenAI embeddings error 429: ", "OpenAI embeddings 429: "}

\* C11: a /query request fails on a rate limit of the question embedding only
\* after the retry ceiling of the ingestion path is exhausted, that is after
\* retries + 1 embedding calls.
C11_QueryEmbedRetried ==
  (q.pc = "responded" /\ q.embed = "status" /\ resp.detail \in RateLimitDetails) =>
    calls.embed = DefaultRetries + 1

UnitAt(s, p) == Head(Drop(s, p)).c

\* offset p of the text lies in a chunk that was returned
Covered(p) ==
  \E k \in 1..Len(ck.spans) : ck.spans[k].at <= p /\ p < ck.spans[k].at + ck.spans[k].len

\* the offsets of the trimmed text: from its first to its last unit that is
\* no white space
TrimmedOffsets ==
  LET len == StrLen(ck.text)
      lead == len - StrLen(TrimStart(ck.text))
      trail == len - StrLen(TrimEnd(ck.text))
  IN lead..(len - trail - 1)

\* the chunks returned are parts of the text in the order of their offsets, none
\* empty and none longer than size
ChunksWellFormed ==
  /\ Len(ck.chunks) = Len(ck.spans)
  /\ \A k \in 1..Len(ck.chunks) :
       /\ ck.chunks[k] = JsSlice(ck.text, ck.spans[k].at, ck.spans[k].at + ck.spans[k].len)
       /\ StrLen(ck.chunks[k]) >= 1
       /\ StrLen(ck.chunks[k]) <= ck.size
       /\ k < Len(ck.chunks) => ck.spans[k].at <= ck.spans[k + 1].at

ValidChunkCall == ck.pc = "returned" /\ ck.text # <<>> /\ ck.overlap < ck.size

\* C13 as stated: for a non-empty text and 0 <= overlap < size, every character
\* of the trimmed input is in a returned chunk, chunks come in offset order, are
\* at most size long and never empty.
C13_Original ==
  ValidChunkCall =>
    /\ ChunksWellFormed
    /\ \A p \in TrimmedOffsets : Covered(p)

\* C13 as amended: every character of the input that is no white space is in a
\* returned chunk (white space at the edge of a window is trimmed away), chunks
\* come in offset order, are at most size long and never empty; they are the
\* chunks the ingestion run cuts (chunkText).
C13_Amended ==
  ValidChunkCall =>
    /\ ChunksWellFormed
    /\ \A p \in 0..(StrLen(ck.text) - 1) :
         ~IsSpace(UnitAt(ck.text, p)) => Covered(p)
    /\ ck.chunks = chunkText(ck.text, ck.size, ck.overlap)

C13_Witness ==
  /\ ck.pc = "returned"
  /\ ck.text = <<[c |-> "a", n |-> 1], [c |-> " ", n |-> 1], [c |-> "a", n |-> 2]>>
  /\ ck.size = 2
  /\ ck.overlap = 1
  /\ Len(ck.chunks) = 4

\* C14: chunkText on a non-empty text with overlap >= size stops with an error
\* before it runs an iteration that makes no progress.
C14_FailsFast ==
  (ck.pc # "idle" /\ ck.text # <<>> /\ ck.overlap >= ck.size) =>
    /\ ck.steps = 0
    /\ ck.pc # "returned"

\* C15: the context handed to the answer synthesizer has one '[#rank] text'
\* line per match, in rank order, and is never longer than the budget of 2000
\* characters (an over-budget context is cut).
C15_ContextWithinBudget ==
  (q.pc \in {"chatting", "responded"} /\ q.indexed = "ok") =>
    /\ StrLen(q.context) <= 2000
    /\ \A k \in 1..Len(q.matches) :
         StrLen(q.context) < 2000 =>
           \E j \in 0..Len(q.context) :
             Take(SubSeq(q.context, j + 1, Len(q.context)), 3 + Len(Dec(k)))
               = Str(<<"[", "#">> \o Dec(k) \o <<"]">>)

\* a request field that is present and not the empty string
NonEmpty(w) == w.t = "string" /\ w.v # ""

\* C16: the filter sent with the index query has exactly the keys among stage
\* and subject whose value is non-empty, each with that value; stage "3rd" with
\* subject "" gives a filter of stage only; with both absent or empty no
\* filter is sent at all.
C16_FilterConstruction ==
  calls.index = 1 =>
    /\ (~NonEmpty(req.stage) /\ ~NonEmpty(req.subject)) => q.filter = <<>>
    /\ (NonEmpty(req.stage) \/ NonEmpty(req.subject)) =>
         /\ Len(q.filter) = 1
         /\ \A kv \in q.filter[1] :
              \/ kv[1] = "stage" /\ NonEmpty(req.stage) /\ kv[2] = req.stage.v
              \/ kv[1] = "subject" /\ NonEmpty(req.subject) /\ kv[2] = req.subject.v
         /\ NonEmpty(req.stage) => <<"stage", req.stage.v>> \in q.filter[1]
         /\ NonEmpty(req.subject) => <<"subject", req.subject.v>> \in q.filter[1]
    /\ (req.stage = [t |-> "string", v |-> "3rd"]
          /\ req.subject = [t |-> "string", v |-> ""]) =>
         q.filter = << {<<"stage", "3rd">>} >>

C16_Witness ==
  /\ q.pc = "responded"
  /\ req.stage = [t |-> "string", v |-> "3rd"]
  /\ req.subject = [t |-> "string", v |-> ""]
  /\ q.filter = << {<<"stage", "3rd">>} >>
  /\ Len(q.matches) = 2

\* C17: embedded vectors are upserted before the next embedding call: while a
\* batch is being embedded no earlier result awaits its upsert, every earlier
\* batch of the document was either skipped or has its records in the index,
\* and at most one batch of at most 8 vectors is ever embedded but not upserted.
C17_UpsertBeforeNextEmbed ==
  /\ Len(ing.vectors) <= 8
  /\ ing.pc \in {"batch", "embedding", "backoff", "pause"} => ing.vectors = <<>>
  /\ ing.pc = "pacing" => \A j \in 1..Len(ing.vectors) : ing.vectors[j].id \in IndexIds
  /\ ing.pc \notin {"off", "doc"} =>
       \A b \in 0..(ing.i - 1) :
         b % 8 = 0 =>
           \E n \in LogFor(Fname) :
             /\ batchLog[n].i = b
             /\ \/ batchLog[n].outcome = "skipped"
                \/ /\ batchLog[n].outcome = "upserted"
                   /\ \A pos \in b..(b + 7) :
                        pos < Len(ing.chunks) => ExpectedId(Fname, pos) \in IndexIds

C17_Witness ==
  /\ ing.pc = "embedding"
  /\ ing.i = 8
  /\ runs = 1
  /\ batchLog # <<>>
  /\ batchLog[Len(batchLog)] = [doc |-> Fname, i |-> 0, outcome |-> "upserted"]
  /\ Cardinality({r \in index : r.metadata.source = Fname}) = 8

\* min(1500 * 2^n, 15000) for the retries n = 0..4 a call can have
WaitWithoutHint == <<1500, 3000, 6000, 12000, 15000>>

\* C18: the wait before retry n of a rate-limited embedding call is the
\* duration the error message gives ("try again in 2.5s": 2500 ms) when it
\* gives one, and min(1500 * 2^n, 15000) ms otherwise; without a hint the wait
\* never exceeds 15000 ms and is at least the wait of retry n - 1.
C18_BackoffDelay ==
  ing.pc = "backoff" =>
    /\ RateLimitFailure(eb.error)
    /\ eb.attempt \in 0..4
    /\ eb.error.hint >= 0 => ing.delay = eb.error.hint * 100
    /\ eb.error.hint < 0 =>
         /\ ing.delay = WaitWithoutHint[eb.attempt + 1]
         /\ ing.delay <= 15000
         /\ eb.attempt > 0 => ing.delay >= WaitWithoutHint[eb.attempt]

C18_Witness ==
  /\ ing.pc = "backoff"
  /\ eb.attempt = 4
  /\ eb.error = [status |-> 429, rateText |-> FALSE, hint |-> -1]
  /\ ing.delay = 15000

\* C19: an upsert that resolves is followed at once by the pacing sleep of
\* 300 ms, also after the last batch of a document; an upsert call is only made
\* on return from an embedding call, which is never what follows the upsert or
\* the sleep directly: no two upserts of a run are back to back.
C19_PacingBetweenUpserts ==
  [][ /\ (ing.pc = "upserting" /\ ing'.pc # "upserting" /\ exit' # "error") =>
           /\ ing'.pc = "pacing"
           /\ ing'.delay = 300
           /\ batchLog' = Append(batchLog, [doc |-> Fname, i |-> ing.i, outcome |-> "upserted"])
      /\ (ing'.pc = "upserting" /\ ing.pc # "upserting") => ing.pc = "embedding"
      /\ (ing'.pc = "embedding" /\ ing.pc # "embedding") => ing.pc \in {"batch", "backoff"}
      /\ (ing'.pc = "batch" /\ ing.pc # "batch") => ing.pc \in {"doc", "pacing", "pause"}
      /\ (ing'.pc = "doc" /\ ing.pc # "doc") => ing.pc \in {"off", "doc", "pacing", "pause"}
    ]_vars

C19_Witness ==
  /\ ing.pc = "pacing"
  /\ ing.delay = 300
  /\ ing.i + 8 >= Len(ing.chunks)
  /\ ing.fi < Len(ing.pdfs)
  /\ Len(batchLog) = 2
  /\ batchLog[1].outcome = "upserted"
  /\ batchLog[2].outcome = "upserted"

\* C20: a failed upsert ends the run: it is the last thing the run did, the
\* process has exited with an error, no embedding call is in flight, its
\* document is not Done and every later document is still Pending.
C20_UpsertFailureAborts ==
  \A n \in 1..Len(batchLog) :
    batchLog[n].outcome = "upsertFailed" =>
      /\ n = Len(batchLog)
      /\ ing.pc = "off"
      /\ exit = "error"
      /\ eb.outcome = "none"
      /\ eb.calls = 0
      /\ \A k \in 1..Len(docState) :
           docState[k].doc = batchLog[n].doc =>
             /\ docState[k].st \notin {"Done", "Skipped"}
             /\ \A k2 \in (k + 1)..Len(docState) : docState[k2].st = "Pending"

C20_Witness ==
  /\ batchLog # <<>>
  /\ batchLog[Len(batchLog)].outcome = "upsertFailed"
  /\ batchLog[Len(batchLog)].i = 0
  /\ Len(ChunksOfDoc(batchLog[Len(batchLog)].doc)) > 8
  /\ Len(docState) = 3
  /\ docState[1].doc = batchLog[Len(batchLog)].doc
  /\ docState[3].st = "Pending"
  /\ exit = "error"

\* the run is over: normally, with every document Done or Skipped, or with a
\* fatal error
RunOver ==
  /\ ing.pc = "off"
  /\ \/ exit = "error"
     \/ /\ exit = "ok"
        /\ \A k \in 1..Len(docState) : docState[k].st \in {"Done", "Skipped"}

\* C21: when every call returns, a run that was started ends, normally with
\* every document Done or Skipped or with a fatal error; on the way the chunks
\* of a document are finitely many (a window every 1050 units of its text) and
\* a batch costs at most retries + 1 = 6 embedding calls.
C21_RunTerminates ==
  /\ [](ing.pc \notin {"off", "doc"} =>
          /\ ing.chunks # <<>>
          /\ (Len(ing.chunks) - 1) * 1050 < StrLen(Extract(dataDir, Fname).text)
          /\ eb.calls <= 6)
  /\ (ing.pc # "off") ~> RunOver

C21_Witness ==
  /\ runs = 1
  /\ ing.pc = "off"
  /\ exit = "ok"
  /\ Len(docState) = 3
  /\ docState[1].st = "Done"
  /\ docState[2].st = "Skipped"
  /\ docState[3].st = "Done"
  /\ Len(batchLog) = 3
  /\ batchLog[1].outcome = "upserted"
  /\ batchLog[2].outcome = "skipped"

====
